---- MODULE Spec2Model ----
(***************************************************************************)
(* Model of weETH-USDC.py: the weekly sampling loop of main(), the value   *)
(* normaliser, the two index queries as seen by the loop, and the CSV sink.*)
(*                                                                         *)
(* Python values are records tagged by t:                                  *)
(*   [t |-> "num", n, d, e]   the float (n / d) * 10^e, in canonical form  *)
(*   [t |-> "none"]           None                                         *)
(*   [t |-> "text", s]        a str that is not a number                   *)
(*   [t |-> "exc", name]      an exception raised while evaluating         *)
(* Floats are modelled as exact decimal rationals: the power of ten is     *)
(* kept in the exponent e, so 10 ** 12 never has to be written out.        *)
(* Binary rounding error of IEEE doubles is not modelled.                  *)
(***************************************************************************)
EXTENDS Integers, Sequences, FiniteSets, TLC

(* ------------------------------ bounds -------------------------------- *)

\* Largest number of whole weeks between start_timestamp and today_timestamp.
MaxWeeks == 2

\* Number of blocks of the chain the block index knows.
NumBlocks == 3

\* Largest decimal-place count normalize_value is tried with.
MaxDecimals == 18

(* --------------------------- Python values ---------------------------- *)

None == [t |-> "none"]

Text(s) == [t |-> "text", s |-> s]

Exc(name) == [t |-> "exc", name |-> name]

IsNum(v) == v.t = "num"

IsExc(v) == v.t = "exc"

Abs(x) == IF x < 0 THEN -x ELSE x

RECURSIVE Gcd(_, _)
Gcd(a, b) == IF b = 0 THEN a ELSE Gcd(b, a % b)

RECURSIVE Pow10(_)
Pow10(k) == IF k <= 0 THEN 1 ELSE 10 * Pow10(k - 1)

\* Canonical form of (n / d) * 10^e, d > 0: the denominator is made coprime
\* to 10, trailing zeros of the numerator go to the exponent, and the
\* fraction is reduced.  Equal floats have equal records.
RECURSIVE Canon(_, _, _)
Canon(n, d, e) ==
    IF n = 0 THEN [t |-> "num", n |-> 0, d |-> 1, e |-> 0]
    ELSE IF d % 2 = 0 THEN Canon(n * 5, d \div 2, e - 1)
    ELSE IF d % 5 = 0 THEN Canon(n * 2, d \div 5, e - 1)
    ELSE IF n % 10 = 0 THEN Canon(n \div 10, d, e + 1)
    ELSE LET g == Gcd(Abs(n), d)
         IN  [t |-> "num", n |-> n \div g, d |-> d \div g, e |-> e]

\* A float literal with an integer value, such as 1 or 0.
Flt(m) == Canon(m, 1, 0)

\* The literal 0.5 of line 144.
Half == Canon(5, 1, -1)

\* A binary operator of Python: the left operand is evaluated first, then the
\* right one, and an operand that is not a float makes the operator raise
\* TypeError (None + 1.0, None / 2.0).
Operands(a, b) ==
    IF IsExc(a) THEN a
    ELSE IF IsExc(b) THEN b
    ELSE IF ~IsNum(a) \/ ~IsNum(b) THEN Exc("TypeError")
    ELSE None

Add(a, b) ==
    IF Operands(a, b) # None THEN Operands(a, b)
    ELSE IF a.n = 0 THEN b
    ELSE IF b.n = 0 THEN a
    ELSE LET m == IF a.e < b.e THEN a.e ELSE b.e
         IN  Canon(a.n * Pow10(a.e - m) * b.d + b.n * Pow10(b.e - m) * a.d,
                   a.d * b.d, m)

Sub(a, b) ==
    IF Operands(a, b) # None THEN Operands(a, b)
    ELSE Add(a, Canon(-b.n, b.d, b.e))

Mul(a, b) ==
    IF Operands(a, b) # None THEN Operands(a, b)
    ELSE Canon(a.n * b.n, a.d * b.d, a.e + b.e)

\* float / float raises ZeroDivisionError on a zero divisor.
Div(a, b) ==
    IF Operands(a, b) # None THEN Operands(a, b)
    ELSE IF b.n = 0 THEN Exc("ZeroDivisionError")
    ELSE IF b.n < 0 THEN Canon(-(a.n * b.d), a.d * (-b.n), a.e - b.e)
    ELSE Canon(a.n * b.d, a.d * b.n, a.e - b.e)

RECURSIVE Newton(_, _)
Newton(n, x) ==
    LET y == (x + n \div x) \div 2
    IN  IF y >= x THEN x ELSE Newton(n, y)

\* Largest r with r * r <= n.
ISqrt(n) == IF n = 0 THEN 0 ELSE Newton(n, n)

\* Digits kept after the point when a square root is irrational.
SqrtDigits == 3

\* The root taken of the absolute value: no domain error.
Sqrt_abs(a) ==
    IF IsExc(a) THEN a
    ELSE IF ~IsNum(a) THEN Exc("TypeError")
    ELSE Canon(ISqrt(Abs(a.n)), ISqrt(a.d), a.e \div 2)

\* math.sqrt: ValueError on a negative argument, TypeError on None.  The root
\* is exact when the argument is the square of a rational; otherwise it is
\* cut to SqrtDigits digits.
Sqrt(a) ==
    IF IsExc(a) THEN a
    ELSE IF ~IsNum(a) THEN Exc("TypeError")
    ELSE IF a.n < 0 THEN Exc("ValueError")
    ELSE LET odd == a.e % 2 # 0
             n   == IF odd THEN a.n * 10 ELSE a.n
             e   == IF odd THEN a.e - 1 ELSE a.e
             rn  == ISqrt(n)
             rd  == ISqrt(a.d)
         IN  IF rn * rn = n /\ rd * rd = a.d
             THEN Canon(rn, rd, e \div 2)
             ELSE Canon(ISqrt(n * a.d * Pow10(2 * SqrtDigits)), a.d,
                        (e \div 2) - SqrtDigits)

\* round(x, 6): the nearest multiple of 10^-6, ties to even; a multiple of
\* 10^-6 is returned as it is.
Round6(a) ==
    IF IsExc(a) THEN a
    ELSE IF ~IsNum(a) THEN Exc("TypeError")
    ELSE IF a.d = 1 /\ a.e >= -6 THEN a
    ELSE LET k  == a.e + 6
             nn == IF k >= 0 THEN a.n * Pow10(k) ELSE a.n
             dd == IF k >= 0 THEN a.d ELSE a.d * Pow10(-k)
             q  == nn \div dd
             r  == nn % dd
             up == 2 * r > dd \/ (2 * r = dd /\ q % 2 # 0)
         IN  Canon(IF up THEN q + 1 ELSE q, 1, -6)

(* ------------------------- normalize_value ---------------------------- *)

\* A str holding the decimal integer m followed by e zeros, as the pool index
\* serialises its fixed-point fields ("12000000000000" is Digits(12, 12)).
Digits(m, e) == [t |-> "str", m |-> m, e |-> e]

\* A Python int, m followed by e zeros: what json gives for a JSON number.
IntLit(m, e) == [t |-> "int", m |-> m, e |-> e]

\* Largest power of ten below the largest float (sys.float_info.max_10_exp).
MaxFloatExp == 308

\* float(value): a numeric str parses (strings of more than MaxFloatExp
\* digits, which give inf, are left out), an int converts unless it is too
\* large for a float, which raises OverflowError, None raises TypeError and
\* any other text raises ValueError.
ToFloat(value) ==
    IF value.t = "str" THEN Canon(value.m, 1, value.e)
    ELSE IF value.t = "int"
         THEN IF value.e > MaxFloatExp THEN Exc("OverflowError")
              ELSE Canon(value.m, 1, value.e)
    ELSE IF value.t = "num" THEN value
    ELSE IF value.t = "none" THEN Exc("TypeError")
    ELSE Exc("ValueError")

\* float(value) * (10 ** decimals): the scaling turned round.
normalize_value_times(value, decimals) ==
    IF ToFloat(value) \in {Exc("TypeError"), Exc("ValueError")} THEN None
    ELSE Mul(ToFloat(value), Canon(1, 1, decimals))

\* float(value) / (10 ** decimals), with TypeError and ValueError caught and
\* turned into None; any other exception leaves the function.
normalize_value(value, decimals) ==
    IF ToFloat(value) \in {Exc("TypeError"), Exc("ValueError")} THEN None
    ELSE Div(ToFloat(value), Canon(1, 1, decimals))

(* ----------------------- utcfromtimestamp/strftime -------------------- *)

\* Year, month and day of the z-th day after 0000-03-01 (proleptic
\* Gregorian calendar).
CivilFromDays(z) ==
    LET era == z \div 146097
        doe == z - era * 146097
        yoe == (doe - doe \div 1460 + doe \div 36524 - doe \div 146096) \div 365
        doy == doe - (365 * yoe + yoe \div 4 - yoe \div 100)
        mp  == (5 * doy + 2) \div 153
        dd  == doy - (153 * mp + 2) \div 5 + 1
        mm  == IF mp < 10 THEN mp + 3 ELSE mp - 9
        yy  == yoe + era * 400 + (IF mm <= 2 THEN 1 ELSE 0)
    IN  <<yy, mm, dd>>

\* The format without the date, '%H:%M:%S': the date fields are constant.
strftime_timeonly(ts) ==
    LET secs == ts % 86400
    IN  <<1900, 1, 1, secs \div 3600, (secs % 3600) \div 60, secs % 60>>

\* datetime.utcfromtimestamp(ts).strftime('%Y-%m-%d %H:%M:%S'), kept as its
\* six zero-padded fields <<Y, m, d, H, M, S>>.
strftime(ts) ==
    LET secs == ts % 86400
    IN  CivilFromDays(ts \div 86400 + 719468) \o
        <<secs \div 3600, (secs % 3600) \div 60, secs % 60>>

\* Order of two such strings: fixed-width fields compare lexicographically.
RECURSIVE LexLess(_, _)
LexLess(a, b) ==
    IF a = <<>> \/ b = <<>> THEN FALSE
    ELSE IF Head(a) # Head(b) THEN Head(a) < Head(b)
    ELSE LexLess(Tail(a), Tail(b))

(* ----------------------------- environment ---------------------------- *)

\* int(datetime(2024, 3, 29, 5, 32, 46).timestamp()) when local time is UTC.
StartUTC == 1711690366

\* Seconds east of UTC of the local time zone; timestamp() of a naive
\* datetime reads it as local time.
TzOffsets == {0, 7200}

\* One loop increment, 7 * 86400.
WEEK == 7 * 86400

\* today_timestamp - start_timestamp: the clock and the zone rules decide it.
\* The set holds a bound before the start, bounds a whole number of steps
\* after it, and bounds in between.
EndOffsets ==
    {-86400} \cup {k * WEEK : k \in 0..MaxWeeks}
             \cup {k * WEEK + 259200 : k \in 0..(MaxWeeks - 1)}

\* Timestamp of the first block the block index knows, and the time between
\* two blocks.
ChainGenesis == 1711600000

BlockSpacing == 518400

BlockTimestamp(b) == ChainGenesis + b * BlockSpacing

\* blocks(first: 1, orderBy: timestamp, orderDirection: asc,
\*        where: {timestamp_gte: timestamp}): the number of the first match,
\* a str in the index's JSON, and None when the list is empty.
EarliestBlock(timestamp) ==
    LET matches == {b \in 1..NumBlocks : BlockTimestamp(b) >= timestamp}
    IN  IF matches = {} THEN None
        ELSE Digits(CHOOSE b \in matches : \A c \in matches : b <= c, 0)

\* What requests.post gives a query function: RequestRaised when the request
\* raises (no connection, timeout), otherwise a response with its status
\* code, whether its JSON has an "errors" key, and its "data".
RequestRaised == [t |-> "raise"]

Http(status, errors, data) ==
    [t |-> "response", status |-> status, errors |-> errors, data |-> data]

\* The answers the block index can give to the query for a timestamp.
BlockResponses(timestamp) ==
    {RequestRaised,
     Http(500, FALSE, None),
     Http(200, TRUE, None),
     Http(200, FALSE,
          [blocks |-> IF EarliestBlock(timestamp) = None THEN <<>>
                      ELSE <<[number |-> EarliestBlock(timestamp)]>>])}

\* Lines 24-43 on one answer: the exception of requests.post goes through,
\* a non-200 status, an error list and an empty list give None.
ResolverReturn(resp) ==
    IF resp = RequestRaised THEN Exc("RequestException")
    ELSE IF resp.status # 200 THEN None
    ELSE IF resp.errors THEN None
    ELSE IF resp.data.blocks = <<>> THEN None
    ELSE resp.data.blocks[1].number

\* What get_block_from_timestamp can return: None on a non-200 status, a
\* GraphQL error list or an empty list, the query's answer otherwise.
get_block_from_timestamp(timestamp) ==
    {ResolverReturn(r) : r \in BlockResponses(timestamp) \ {RequestRaised}}

\* A gammaPool record as the pool index serves it.
Pool(lpInvariant, lpBorrowedInvariant, lastPrice, totalSupply) ==
    [lpInvariant |-> lpInvariant, lpBorrowedInvariant |-> lpBorrowedInvariant,
     lastPrice |-> lastPrice, totalSupply |-> totalSupply,
     token0 |-> [decimals |-> 18], token1 |-> [decimals |-> 6]]

\* Records of a pool in use, every field a fixed-point number: the pool at
\* price 1 with nothing borrowed, and later with 6 borrowed at price 4.
HealthyPools ==
    {Pool(Digits(12, 12), Digits(0, 0), Digits(1, 6), Digits(10, 12)),
     Pool(Digits(12, 12), Digits(6, 12), Digits(4, 6), Digits(10, 12))}

\* Records with a field that is zero, negative, null, not a number, or a
\* JSON number of 401 digits; the first one is a pool nobody has deposited
\* into yet.
DefectivePools ==
    {Pool(Digits(0, 0), Digits(0, 0), Digits(0, 0), Digits(0, 0)),
     Pool(Digits(12, 12), Digits(6, 12), Digits(0, 0), Digits(10, 12)),
     Pool(Digits(12, 12), Digits(6, 12), Digits(-1, 6), Digits(10, 12)),
     Pool(Digits(12, 12), Digits(6, 12), Digits(1, 6), Digits(0, 0)),
     Pool(Digits(12, 12), None, Digits(1, 6), Digits(10, 12)),
     Pool(Digits(12, 12), Digits(6, 12), Text("abc"), Digits(20, 12)),
     Pool(IntLit(1, 400), Digits(6, 12), Digits(1, 6), Digits(10, 12))}

\* The gammaPool records the pool index can serve.
Snapshots == HealthyPools \cup DefectivePools

\* The answers the pool index can give.
PoolResponses ==
    {RequestRaised, Http(500, FALSE, None), Http(200, TRUE, None)}
        \cup {Http(200, FALSE, [gammaPool |-> pd]) : pd \in {None} \cup Snapshots}

\* Lines 60-72 on one answer.
FetcherReturn(resp) ==
    IF resp = RequestRaised THEN Exc("RequestException")
    ELSE IF resp.status # 200 THEN None
    ELSE IF resp.errors THEN None
    ELSE resp.data.gammaPool

\* What query_pool_at_block can return: None on a non-200 status, an error
\* list or a null gammaPool, the record otherwise.
query_pool_at_block ==
    {FetcherReturn(r) : r \in PoolResponses \ {RequestRaised}}

\* The answer that made query_pool_at_block return the record v.
PoolAnswer(v) == Http(200, FALSE, [gammaPool |-> v])

(* ------------------------------ save_to_csv --------------------------- *)

fieldnames ==
    <<"utcTimestamp", "blockNumber", "totalInvariant", "totalSupply",
      "lastPrice", "totalLPReturnPercent", "spotReturnPercent">>

HeaderLine == [kind |-> "header", fields |-> fieldnames]

RowLine(data) == [kind |-> "row", data |-> data]

\* The file after save_to_csv(data): None is an absent file, File(lines) an
\* existing one.  The header goes in only when open(filename, 'r')
\* found no file.
File(lines) == [t |-> "file", lines |-> lines]

\* The header written by every call, whether the file exists or not.
save_to_csv_header_always(file, data) ==
    File((IF file = None THEN <<>> ELSE file.lines)
            \o <<HeaderLine, RowLine(data)>>)

save_to_csv(file, data) ==
    IF file = None THEN File(<<HeaderLine, RowLine(data)>>)
    ELSE File(Append(file.lines, RowLine(data)))

(* ------------------------------- main --------------------------------- *)

VARIABLES
    start_timestamp,     \* line 94
    today_timestamp,     \* line 96
    current_timestamp,   \* the cursor, lines 95, 104, 161, 165
    pool_creation_data,  \* the baseline: None or a dict, lines 98, 120-125
    block_number,        \* result of the last resolver call, line 101
    pool_data,           \* result of the last fetcher call, line 107
    pc,                  \* "stepping" in the loop, "done" after it,
                         \* "crashed" when an exception left main
    error,               \* name of that exception, None otherwise
    stdout,              \* what main printed, in order
    resolverCalls,       \* arguments of the get_block_from_timestamp calls
    fetcherCalls,        \* arguments of the query_pool_at_block calls
    response,            \* what the last requests.post gave, lines 24, 60
    csv_file             \* weETH-USDC_Data.csv: None or its lines

vars ==
    <<start_timestamp, today_timestamp, current_timestamp, pool_creation_data,
      block_number, pool_data, pc, error, stdout, resolverCalls, fetcherCalls,
      response, csv_file>>

\* The loop test made one step ahead: the last cursor is left out.
LoopCond_one_step_short(current, today) == current + 7 * 86400 <= today

\* The loop test written with < : the cursor equal to the bound is left out.
LoopCond_strict(current, today) == current < today

\* while current_timestamp <= today_timestamp
LoopCond(current, today) == current <= today

\* The increment written as one day.
NextCursor_day(current) == current + 86400

\* current_timestamp += 7 * 86400
NextCursor(current) == current + 7 * 86400

\* Truth value of a Python object in an if: None is false, a block number
\* and a dict with keys are true.
Truthy(v) == v # None

lp_invariant(pd) == normalize_value(pd.lpInvariant, 12)

lp_borrowed_invariant(pd) == normalize_value(pd.lpBorrowedInvariant, 12)

last_price(pd) == normalize_value(pd.lastPrice, 6)

total_supply(pd) == normalize_value(pd.totalSupply, 12)

\* The dict built at lines 121-125; the sum is evaluated while building it.
CreationData(pd) ==
    [t |-> "dict",
     totalInvariant |-> Add(lp_invariant(pd), lp_borrowed_invariant(pd)),
     totalSupply |-> total_supply(pd),
     lastPrice |-> last_price(pd)]

RECURSIVE FirstExc(_)
FirstExc(vals) ==
    IF vals = <<>> THEN None
    ELSE IF IsExc(Head(vals)) THEN Head(vals)
    ELSE FirstExc(Tail(vals))

\* Exception leaving normalize_value at lines 115-118, None when the four
\* calls return.
NormalizeExc(pd) ==
    FirstExc(<<lp_invariant(pd), lp_borrowed_invariant(pd), last_price(pd),
               total_supply(pd)>>)

\* Exception raised by lines 115-125, None when they complete.
CaptureExc(base, pd) ==
    IF NormalizeExc(pd) # None THEN NormalizeExc(pd)
    ELSE IF base = None /\ IsExc(CreationData(pd).totalInvariant)
    THEN CreationData(pd).totalInvariant
    ELSE None

\* The capture without its "is None" test: every sample overwrites.
Capture_overwrite(base, pd) ==
    IF CaptureExc(None, pd) # None THEN base ELSE CreationData(pd)

\* The capture left out: pool_creation_data stays as it was.
Capture_never(base, pd) == base

\* pool_creation_data after lines 120-125: assigned only when it was None
\* and building the dict did not raise.
Capture(base, pd) ==
    IF base = None /\ CaptureExc(base, pd) = None THEN CreationData(pd)
    ELSE base

\* Line 132 without the borrowed part.
total_invariant_lp_only(pd) == lp_invariant(pd)

\* Line 132.
total_invariant(pd) == Add(lp_invariant(pd), lp_borrowed_invariant(pd))

\* Lines 134-140, base being pool_creation_data after the capture.
total_lp_return_percent(base, pd) ==
    IF Truthy(base)
    THEN Sub(Mul(Div(Div(total_invariant(pd), base.totalInvariant),
                     Div(total_supply(pd), base.totalSupply)),
                 Sqrt(Div(last_price(pd), base.lastPrice))),
             Flt(1))
    ELSE None

\* Lines 142-144.
spot_return_percent(base, pd) ==
    IF Truthy(base)
    THEN Sub(Div(Add(Mul(Div(last_price(pd), base.lastPrice), Half), Half),
                 Flt(1)),
             Flt(1))
    ELSE None

RoundOrNone(v) == IF v # None THEN Round6(v) ELSE None

\* Lines 146-156.
csv_row(cursor, block, base, pd) ==
    [utcTimestamp |-> strftime(cursor),
     blockNumber |-> block,
     totalInvariant |-> Round6(total_invariant(pd)),
     totalSupply |-> Round6(total_supply(pd)),
     lastPrice |-> Round6(last_price(pd)),
     totalLPReturnPercent |-> RoundOrNone(total_lp_return_percent(base, pd)),
     spotReturnPercent |-> RoundOrNone(spot_return_percent(base, pd))]

\* The first exception lines 132-156 raise, in evaluation order, None when
\* they complete; base is pool_creation_data after the capture.
ComputeExc(cursor, block, base, pd) ==
    LET row == csv_row(cursor, block, base, pd)
    IN  FirstExc(<<total_invariant(pd),
                   total_lp_return_percent(base, pd),
                   spot_return_percent(base, pd),
                   row.totalInvariant, row.totalSupply, row.lastPrice,
                   row.totalLPReturnPercent, row.spotReturnPercent>>)

\* The print calls of main.
NoBlockMsg(cursor) == [msg |-> "No block found", timestamp |-> cursor]

NoDataMsg(block) == [msg |-> "No data returned", block |-> block]

DataMsg(block) == [msg |-> "Data retrieved", block |-> block]

NormalizedMsg(block, pd) ==
    [msg |-> "Normalized values", block |-> block,
     lpInvariant |-> lp_invariant(pd),
     lpBorrowedInvariant |-> lp_borrowed_invariant(pd),
     lastPrice |-> last_price(pd),
     totalSupply |-> total_supply(pd)]

RowMsg(row) == [msg |-> "Row written", row |-> row]

\* The row an earlier run wrote first: start in UTC, the first block, a
\* record with 12 of invariant, price 1 and supply 10.
EarlierRunRow ==
    LET pd == Pool(Digits(12, 12), Digits(0, 0), Digits(1, 6), Digits(10, 12))
    IN  csv_row(StartUTC, EarliestBlock(StartUTC), CreationData(pd), pd)

\* The file before the run: absent, existing and empty, or left by an
\* earlier run.
InitialFiles ==
    {None, File(<<>>), File(<<HeaderLine, RowLine(EarlierRunRow)>>)}

Init ==
    /\ start_timestamp \in {StartUTC - east : east \in TzOffsets}
    /\ today_timestamp \in {start_timestamp + off : off \in EndOffsets}
    /\ current_timestamp = start_timestamp
    /\ pool_creation_data = None
    /\ block_number = None
    /\ pool_data = None
    /\ pc = "stepping"
    /\ error = None
    /\ stdout = <<>>
    /\ resolverCalls = <<>>
    /\ fetcherCalls = <<>>
    /\ response = None
    /\ csv_file \in InitialFiles

InLoop == pc = "stepping" /\ LoopCond(current_timestamp, today_timestamp)

\* Line 100 finds the condition false: main returns.
LoopExit ==
    /\ pc = "stepping"
    /\ ~LoopCond(current_timestamp, today_timestamp)
    /\ pc' = "done"
    /\ UNCHANGED <<start_timestamp, today_timestamp, current_timestamp,
                   pool_creation_data, block_number, pool_data, error, stdout,
                   resolverCalls, fetcherCalls, response, csv_file>>

\* requests.post (or response.json()) raises inside
\* get_block_from_timestamp; nothing catches it.
ResolverRaises ==
    /\ InLoop
    /\ \E r \in BlockResponses(current_timestamp) :
          /\ IsExc(ResolverReturn(r))
          /\ response' = r
          /\ error' = ResolverReturn(r)
    /\ resolverCalls' = Append(resolverCalls, current_timestamp)
    /\ pc' = "crashed"
    /\ UNCHANGED <<start_timestamp, today_timestamp, current_timestamp,
                   pool_creation_data, block_number, pool_data, stdout,
                   fetcherCalls, csv_file>>

\* Lines 101-105 without the continue: the fetcher is called all the same.
StepNoBlock_fetch ==
    /\ InLoop
    /\ \E r \in BlockResponses(current_timestamp) \ {RequestRaised} :
          /\ ~Truthy(ResolverReturn(r))
          /\ block_number' = ResolverReturn(r)
          /\ response' = r
          /\ fetcherCalls' = Append(fetcherCalls, ResolverReturn(r))
    /\ resolverCalls' = Append(resolverCalls, current_timestamp)
    /\ stdout' = Append(stdout, NoBlockMsg(current_timestamp))
    /\ current_timestamp' = NextCursor(current_timestamp)
    /\ UNCHANGED <<start_timestamp, today_timestamp, pool_creation_data,
                   pool_data, pc, error, csv_file>>

\* Lines 101-105: no block for the cursor.
StepNoBlock ==
    /\ InLoop
    /\ \E r \in BlockResponses(current_timestamp) \ {RequestRaised} :
          /\ ~Truthy(ResolverReturn(r))
          /\ block_number' = ResolverReturn(r)
          /\ response' = r
    /\ resolverCalls' = Append(resolverCalls, current_timestamp)
    /\ stdout' = Append(stdout, NoBlockMsg(current_timestamp))
    /\ current_timestamp' = NextCursor(current_timestamp)
    /\ UNCHANGED <<start_timestamp, today_timestamp, pool_creation_data,
                   pool_data, pc, error, fetcherCalls, csv_file>>

\* Line 107: the request inside query_pool_at_block raises.
FetcherRaises ==
    /\ InLoop
    /\ \E b \in get_block_from_timestamp(current_timestamp) :
          /\ Truthy(b)
          /\ block_number' = b
          /\ fetcherCalls' = Append(fetcherCalls, b)
    /\ RequestRaised \in PoolResponses
    /\ response' = RequestRaised
    /\ error' = FetcherReturn(RequestRaised)
    /\ resolverCalls' = Append(resolverCalls, current_timestamp)
    /\ pc' = "crashed"
    /\ UNCHANGED <<start_timestamp, today_timestamp, current_timestamp,
                   pool_creation_data, pool_data, stdout, csv_file>>

\* Lines 107-108, 163-165 with the fetcher called again after an empty
\* answer.
StepNoData_retry ==
    /\ InLoop
    /\ \E b \in get_block_from_timestamp(current_timestamp) :
          /\ Truthy(b)
          /\ block_number' = b
          /\ fetcherCalls' = fetcherCalls \o <<b, b>>
          /\ stdout' = Append(stdout, NoDataMsg(b))
    /\ \E q \in PoolResponses \ {RequestRaised} :
          /\ ~Truthy(FetcherReturn(q))
          /\ pool_data' = FetcherReturn(q)
          /\ response' = q
    /\ resolverCalls' = Append(resolverCalls, current_timestamp)
    /\ current_timestamp' = NextCursor(current_timestamp)
    /\ UNCHANGED <<start_timestamp, today_timestamp, pool_creation_data,
                   pc, error, csv_file>>

\* Lines 107-108, 163-165: a block, but no pool record.
StepNoData ==
    /\ InLoop
    /\ \E b \in get_block_from_timestamp(current_timestamp) :
          /\ Truthy(b)
          /\ block_number' = b
          /\ fetcherCalls' = Append(fetcherCalls, b)
          /\ stdout' = Append(stdout, NoDataMsg(b))
    /\ \E q \in PoolResponses \ {RequestRaised} :
          /\ ~Truthy(FetcherReturn(q))
          /\ pool_data' = FetcherReturn(q)
          /\ response' = q
    /\ resolverCalls' = Append(resolverCalls, current_timestamp)
    /\ current_timestamp' = NextCursor(current_timestamp)
    /\ UNCHANGED <<start_timestamp, today_timestamp, pool_creation_data,
                   pc, error, csv_file>>

\* Lines 108-156 with an exception leaving main: from normalize_value or
\* the sum of line 122 (before anything is captured or the sample printed),
\* or from lines 132-156 (after the capture and the prints of lines
\* 126-130).
StepRaises ==
    /\ InLoop
    /\ \E b \in get_block_from_timestamp(current_timestamp),
          pd \in query_pool_at_block :
          /\ Truthy(b) /\ Truthy(pd)
          /\ LET base == Capture(pool_creation_data, pd)
                 e1   == CaptureExc(pool_creation_data, pd)
                 e2   == ComputeExc(current_timestamp, b, base, pd)
             IN  /\ e1 # None \/ e2 # None
                 /\ error' = IF e1 # None THEN e1 ELSE e2
                 /\ pool_creation_data' = base
                 /\ stdout' = IF e1 # None
                              THEN Append(stdout, DataMsg(b))
                              ELSE stdout \o
                                   <<DataMsg(b), NormalizedMsg(b, pd)>>
          /\ block_number' = b
          /\ pool_data' = pd
          /\ response' = PoolAnswer(pd)
          /\ fetcherCalls' = Append(fetcherCalls, b)
    /\ resolverCalls' = Append(resolverCalls, current_timestamp)
    /\ pc' = "crashed"
    /\ UNCHANGED <<start_timestamp, today_timestamp, current_timestamp,
                   csv_file>>

\* Lines 108-157: the row is computed, and open() or the write inside
\* save_to_csv raises OSError.
StepWriteFails ==
    /\ InLoop
    /\ \E b \in get_block_from_timestamp(current_timestamp),
          pd \in query_pool_at_block :
          /\ Truthy(b) /\ Truthy(pd)
          /\ LET base == Capture(pool_creation_data, pd)
             IN  /\ CaptureExc(pool_creation_data, pd) = None
                 /\ ComputeExc(current_timestamp, b, base, pd) = None
                 /\ pool_creation_data' = base
          /\ stdout' = stdout \o <<DataMsg(b), NormalizedMsg(b, pd)>>
          /\ block_number' = b
          /\ pool_data' = pd
          /\ response' = PoolAnswer(pd)
          /\ fetcherCalls' = Append(fetcherCalls, b)
    /\ resolverCalls' = Append(resolverCalls, current_timestamp)
    /\ pc' = "crashed"
    /\ error' = Exc("OSError")
    /\ UNCHANGED <<start_timestamp, today_timestamp, current_timestamp,
                   csv_file>>

\* Lines 108-161: the successful step, one row appended and printed.
StepRow ==
    /\ InLoop
    /\ \E b \in get_block_from_timestamp(current_timestamp),
          pd \in query_pool_at_block :
          /\ Truthy(b) /\ Truthy(pd)
          /\ LET base == Capture(pool_creation_data, pd)
                 row  == csv_row(current_timestamp, b, base, pd)
             IN  /\ CaptureExc(pool_creation_data, pd) = None
                 /\ ComputeExc(current_timestamp, b, base, pd) = None
                 /\ pool_creation_data' = base
                 /\ csv_file' = save_to_csv(csv_file, row)
                 /\ stdout' = stdout \o
                       <<DataMsg(b), NormalizedMsg(b, pd), RowMsg(row)>>
          /\ block_number' = b
          /\ pool_data' = pd
          /\ response' = PoolAnswer(pd)
          /\ fetcherCalls' = Append(fetcherCalls, b)
    /\ resolverCalls' = Append(resolverCalls, current_timestamp)
    /\ current_timestamp' = NextCursor(current_timestamp)
    /\ UNCHANGED <<start_timestamp, today_timestamp, pc, error>>

Next ==
    \/ LoopExit
    \/ StepNoBlock
    \/ StepNoData
    \/ StepRaises
    \/ StepRow
    \/ StepWriteFails
    \/ ResolverRaises
    \/ FetcherRaises

Spec == Init /\ [][Next]_vars

\* The interpreter always runs the next statement of main.
FairSpec == Spec /\ WF_vars(Next)

(* ------------------------------ properties ---------------------------- *)

\* The rows main printed after writing them, in order.
RowMsgs == SelectSeq(stdout, LAMBDA m : m.msg = "Row written")

\* Positions in stdout of the messages with the given text.
MsgIdx(out, text) == {i \in 1..Len(out) : out[i].msg = text}

Min(S) == CHOOSE x \in S : \A y \in S : x <= y

\* The last message of a step that printed exactly one message.
PrintedOne(text) ==
    /\ Len(stdout') = Len(stdout) + 1
    /\ stdout'[Len(stdout')].msg = text

\* The step fetched a pool record: its first message is "Data retrieved".
FetchedData ==
    /\ Len(stdout') > Len(stdout)
    /\ stdout'[Len(stdout) + 1].msg = "Data retrieved"

\* The baseline is absent until a sample is printed, and then it is the
\* sample of the first step that fetched a record: the values printed right
\* after the first "Data retrieved".
BaselineIsFirstSample ==
    LET norm == MsgIdx(stdout, "Normalized values")
        f    == stdout[Min(norm)]
    IN  IF norm = {} THEN pool_creation_data = None
        ELSE /\ Min(norm) = Min(MsgIdx(stdout, "Data retrieved")) + 1
             /\ \A i \in 1..(Min(norm) - 2) :
                   stdout[i].msg \in {"No block found", "No data returned"}
             /\ pool_creation_data.totalInvariant
                   = Add(f.lpInvariant, f.lpBorrowedInvariant)
             /\ pool_creation_data.totalSupply = f.totalSupply
             /\ pool_creation_data.lastPrice = f.lastPrice

\* C1: the baseline is captured exactly once: after k failed steps it is
\* the normalized sample of the first step that fetched a record, and no
\* later step, failed or successful, changes it.
C1_BaselineCapturedOnce ==
    [][/\ BaselineIsFirstSample'
       /\ pool_creation_data # None
             => pool_creation_data' = pool_creation_data]_vars

\* C1 witness: a failed step, then the baseline step, then a successful
\* step with another sample, the baseline still being the first sample.
C1_Witness ==
    /\ Len(RowMsgs) = 2
    /\ stdout[1].msg \in {"No block found", "No data returned"}
    /\ RowMsgs[1].row.totalInvariant = Round6(pool_creation_data.totalInvariant)
    /\ RowMsgs[2].row.totalInvariant # RowMsgs[1].row.totalInvariant
    /\ RowMsgs[2].row.lastPrice # RowMsgs[1].row.lastPrice

\* An iteration of the loop ran to its end: the resolver was called and
\* main is still in the loop.
IterationCompleted ==
    Len(resolverCalls') = Len(resolverCalls) + 1 /\ pc' = "stepping"

C3_LeavesLoopOnlyPastBound ==
    pc # "stepping" => pc = "done" /\ current_timestamp > today_timestamp

\* C4: whatever the resolver and the fetcher return, the run eventually
\* reaches DONE (unless the transport or the sink raises), and no iteration
\* runs with the cursor past the end bound.
C4_EventuallyDone ==
    /\ <>(pc = "done" \/ error \in {Exc("OSError"), Exc("RequestException")})
    /\ [](\A i \in 1..Len(resolverCalls) : resolverCalls[i] <= today_timestamp)

\* C5 as claimed: with the end bound one step after the start, exactly one
\* iteration occurs.
C5_OneIterationOneStepApart ==
    pc = "done" /\ today_timestamp = start_timestamp + 604800
        => Len(resolverCalls) = 1

\* C5 amended: with the end bound one step after the start, a run that
\* reaches DONE made exactly two iterations, at the start and at the bound;
\* it makes exactly one iteration when the bound is less than one step
\* after the start.
C5_TwoIterationsOneStepApart ==
    pc = "done" =>
        /\ today_timestamp = start_timestamp + 604800
              => resolverCalls = <<start_timestamp, today_timestamp>>
        /\ (today_timestamp >= start_timestamp
              /\ today_timestamp < start_timestamp + 604800)
              => resolverCalls = <<start_timestamp>>

\* C5 witness: DONE after two iterations with the bound one step away.
C5_Witness ==
    /\ pc = "done"
    /\ today_timestamp = start_timestamp + 604800
    /\ Len(resolverCalls) = 2

\* C6: once a step has fetched a record, the baseline step has emitted a
\* row whose two returns are exactly 0 (a failing write of the sink set
\* aside).
C6_BaselineStepEmitsZeroRow ==
    (MsgIdx(stdout, "Data retrieved") # {} /\ error # Exc("OSError")) =>
        LET i == Min(MsgIdx(stdout, "Data retrieved")) + 2
        IN  /\ Len(stdout) >= i
            /\ stdout[i].msg = "Row written"
            /\ stdout[i].row.totalLPReturnPercent = Flt(0)
            /\ stdout[i].row.spotReturnPercent = Flt(0)

\* What a skipped step leaves alone.
SkipFrame ==
    /\ RowMsgs' = RowMsgs
    /\ csv_file' = csv_file
    /\ pool_creation_data' = pool_creation_data
    /\ current_timestamp' = current_timestamp + 604800
    /\ pc' = pc /\ error' = error
    /\ Len(resolverCalls') = Len(resolverCalls) + 1

\* C7: a step whose resolver or fetcher returns nothing emits no row, keeps
\* the baseline and only advances the cursor by 604800; the fetcher is not
\* called when the resolver returned nothing.
C7_SkipChangesOnlyCursor ==
    [][/\ PrintedOne("No block found")
             => /\ SkipFrame
                /\ ~Truthy(block_number')
                /\ fetcherCalls' = fetcherCalls
                /\ pool_data' = pool_data
       /\ PrintedOne("No data returned")
             => /\ SkipFrame
                /\ Truthy(block_number')
                /\ fetcherCalls' = Append(fetcherCalls, block_number')
                /\ ~Truthy(pool_data')]_vars

\* C7 witness: a row, then a step without data, then a step without block,
\* the baseline of the row still in place.
C7_Witness ==
    /\ Len(stdout) = 5
    /\ stdout[3].msg = "Row written"
    /\ stdout[4].msg = "No data returned"
    /\ stdout[5].msg = "No block found"
    /\ Len(fetcherCalls) = 2
    /\ pool_creation_data # None
    /\ Len(RowMsgs) = 1

\* The record has a field that normalize_value turns into None.
HasNoneField(pd) ==
    None \in {lp_invariant(pd), lp_borrowed_invariant(pd), last_price(pd),
              total_supply(pd)}

\* C8: a step whose sample has a field normalized to None is skipped: no
\* row, the baseline untouched, no exception from arithmetic on the missing
\* value, and the loop goes on with the cursor advanced by 604800.
C8_NoneSampleIsSkipped ==
    [][(FetchedData /\ HasNoneField(pool_data'))
          => /\ RowMsgs' = RowMsgs
             /\ csv_file' = csv_file
             /\ pool_creation_data' = pool_creation_data
             /\ error' = None
             /\ pc' = "stepping"
             /\ current_timestamp' = current_timestamp + 604800]_vars

\* C9: the rows of a run are in strictly increasing utcTimestamp order and
\* their blockNumber never decreases.
C9_RowsInOrder ==
    \A i, j \in 1..Len(RowMsgs) :
        i < j => /\ LexLess(RowMsgs[i].row.utcTimestamp,
                            RowMsgs[j].row.utcTimestamp)
                 /\ RowMsgs[i].row.blockNumber.m <= RowMsgs[j].row.blockNumber.m

\* C9 witness: three rows, one per week.
C9_Witness ==
    /\ Len(RowMsgs) = 3
    /\ RowMsgs[1].row.blockNumber.m < RowMsgs[3].row.blockNumber.m

\* C10: whenever a row has been emitted the baseline exists, and every
\* emitted row, in the file and on stdout, has two non-null returns.
C10_RowsHaveBaselineAndReturns ==
    /\ RowMsgs # <<>> => Truthy(pool_creation_data)
    /\ \A i \in 1..Len(RowMsgs) :
          /\ IsNum(RowMsgs[i].row.totalLPReturnPercent)
          /\ IsNum(RowMsgs[i].row.spotReturnPercent)
    /\ csv_file # None =>
          \A i \in 1..Len(csv_file.lines) :
              csv_file.lines[i].kind = "row" =>
                  /\ IsNum(csv_file.lines[i].data.totalLPReturnPercent)
                  /\ IsNum(csv_file.lines[i].data.spotReturnPercent)

\* C10 witness: the first row of a run has just been written to a new file.
C10_Witness ==
    /\ Len(RowMsgs) = 1
    /\ csv_file = File(<<HeaderLine, RowLine(RowMsgs[1].row)>>)
    /\ Truthy(pool_creation_data)

\* The step printed a row.
RowEmitted == Len(RowMsgs') = Len(RowMsgs) + 1

\* The digit string v read as a fixed-point number with d decimals.
RawScaled(v, d) == Canon(v.m, 1, v.e - d)

\* The record of the scenario of the spec: 12 and 0 of invariant, price 1,
\* supply 10.
ScenarioPool == Pool(Digits(12, 12), Digits(0, 0), Digits(1, 6), Digits(10, 12))

\* C11: a step that fetches a record and completes emits exactly one row,
\* to the file and to stdout; its blockNumber is the block resolved for the
\* cursor, its utcTimestamp is the cursor's (not the block's), and its
\* totalInvariant, totalSupply and lastPrice are the record's fields over
\* 10^12, 10^12 and 10^6.  With start = end and the scenario's record the
\* run's only row is 12, 10, 1 with both returns 0.
C11_RowMatchesSample ==
    [][/\ (FetchedData /\ pc' = "stepping") => RowEmitted
       /\ Len(RowMsgs') <= Len(RowMsgs) + 1
       /\ RowEmitted =>
            LET row == RowMsgs'[Len(RowMsgs')].row
                pd  == pool_data'
            IN  /\ csv_file'.lines =
                      (IF csv_file = None THEN <<HeaderLine>>
                       ELSE csv_file.lines) \o <<RowLine(row)>>
                /\ row.blockNumber = EarliestBlock(current_timestamp)
                /\ row.utcTimestamp = strftime(current_timestamp)
                /\ row.utcTimestamp # strftime(BlockTimestamp(row.blockNumber.m))
                /\ row.totalInvariant =
                      Round6(Add(RawScaled(pd.lpInvariant, 12),
                                 RawScaled(pd.lpBorrowedInvariant, 12)))
                /\ row.totalSupply = Round6(RawScaled(pd.totalSupply, 12))
                /\ row.lastPrice = Round6(RawScaled(pd.lastPrice, 6))
                /\ (today_timestamp = start_timestamp /\ pd = ScenarioPool)
                      => /\ Len(RowMsgs') = 1
                         /\ row.totalInvariant
                               = [t |-> "num", n |-> 12, d |-> 1, e |-> 0]
                         /\ row.totalSupply
                               = [t |-> "num", n |-> 1, d |-> 1, e |-> 1]
                         /\ row.lastPrice
                               = [t |-> "num", n |-> 1, d |-> 1, e |-> 0]
                         /\ row.totalLPReturnPercent
                               = [t |-> "num", n |-> 0, d |-> 1, e |-> 0]
                         /\ row.spotReturnPercent
                               = [t |-> "num", n |-> 0, d |-> 1, e |-> 0]]_vars

\* C11 witness: the scenario ran to DONE with its single row.
C11_Witness ==
    /\ pc = "done"
    /\ today_timestamp = start_timestamp
    /\ pool_data = ScenarioPool
    /\ Len(RowMsgs) = 1
    /\ RowMsgs[1].row.utcTimestamp \in
          {<<2024, 3, 29, 5, 32, 46>>, <<2024, 3, 29, 3, 32, 46>>}

\* The answer is a failure of the query: the request raised, the status is
\* not 200, the body has an error list, or the result is empty or null.
FailedQuery(resp) ==
    \/ resp = RequestRaised
    \/ resp.status # 200
    \/ resp.errors
    \/ ("blocks" \in DOMAIN resp.data /\ resp.data.blocks = <<>>)
    \/ ("gammaPool" \in DOMAIN resp.data /\ resp.data.gammaPool = None)

\* C12: a failed index query, transport errors included, never reaches the
\* driver as an exception: the query function returns None and the step is
\* skipped.
C12_QueryFailureIsSkipped ==
    [][(Len(resolverCalls') = Len(resolverCalls) + 1 /\ FailedQuery(response'))
          => /\ error' = None
             /\ pc' = "stepping"
             /\ current_timestamp' = current_timestamp + 604800
             /\ RowMsgs' = RowMsgs
             /\ pool_creation_data' = pool_creation_data]_vars

\* The four fixed-point fields of a fetched record.
RawFields(pd) ==
    {pd.lpInvariant, pd.lpBorrowedInvariant, pd.lastPrice, pd.totalSupply}

\* C13: normalize_value returns a number or None for every raw value and
\* never raises; it returns None exactly for the values that are not
\* numeric.
C13_NormalizeIsTotal ==
    pool_data # None =>
        \A v \in RawFields(pool_data), d \in {6, 12} :
            /\ IsNum(normalize_value(v, d)) \/ normalize_value(v, d) = None
            /\ normalize_value(v, d) = None <=> v.t \notin {"str", "int"}

\* C14: for a numeric fixed-point value v and a decimal count d,
\* normalize_value(v, d) times 10^d is v again.
C14_NormalizeInvertsScaling ==
    pool_data # None =>
        \A v \in RawFields(pool_data), d \in 0..MaxDecimals :
            IsNum(normalize_value(v, d))
                => Mul(normalize_value(v, d), Canon(1, 1, d)) = ToFloat(v)

\* C14 witness: a fetched record whose lpInvariant 12 * 10^12 normalizes to
\* 12, a value other than the raw one.
C14_Witness ==
    /\ pool_data \in HealthyPools
    /\ normalize_value(pool_data.lpInvariant, 12)
          = [t |-> "num", n |-> 12, d |-> 1, e |-> 0]
    /\ ToFloat(pool_data.lpInvariant)
          = [t |-> "num", n |-> 12, d |-> 1, e |-> 12]
    /\ normalize_value(pool_data.lastPrice, 6) # ToFloat(pool_data.lastPrice)

\* The header lines of a file.
HeaderIdx(file) ==
    IF file = None THEN {}
    ELSE {i \in 1..Len(file.lines) : file.lines[i].kind = "header"}

\* C15: a write to the sink puts the header in only when it finds the file
\* absent, so a run writes it at most once; every write appends exactly one
\* row after all earlier lines and changes none of them, also when the row
\* is already in the file.
C15_SinkAppendsOneRow ==
    [][csv_file' # csv_file =>
          LET row == RowMsgs'[Len(RowMsgs')].row
          IN  /\ RowEmitted
              /\ csv_file = None
                    => csv_file'.lines = <<HeaderLine, RowLine(row)>>
              /\ csv_file # None
                    => /\ csv_file'.lines = Append(csv_file.lines, RowLine(row))
                       /\ HeaderIdx(csv_file') = HeaderIdx(csv_file)
              /\ HeaderIdx(csv_file') \subseteq {1}]_vars

\* C15 witness: a second run from the same start added the row the earlier
\* run had written, and then one more, under the one header.
C15_Witness ==
    /\ csv_file # None
    /\ Len(RowMsgs) = 2
    /\ Len(csv_file.lines) = 4
    /\ csv_file.lines[1] = HeaderLine
    /\ csv_file.lines[2] = csv_file.lines[3]
    /\ csv_file.lines[3] = RowLine(RowMsgs[1].row)
    /\ csv_file.lines[4] = RowLine(RowMsgs[2].row)

ArithmeticErrors == {Exc("ZeroDivisionError"), Exc("ValueError")}

\* The step fetched a record with a numeric lastPrice and, after the
\* capture, the baseline has a numeric lastPrice too.
PricesKnown ==
    /\ FetchedData
    /\ IsNum(last_price(pool_data'))
    /\ pool_creation_data' # None
    /\ IsNum(pool_creation_data'.lastPrice)

\* The four values normalized at lines 115-118 are all numbers.
SampleIsNumeric(pd) ==
    \A v \in {lp_invariant(pd), lp_borrowed_invariant(pd), last_price(pd),
              total_supply(pd)} : IsNum(v)

\* C16 as claimed: when the baseline's lastPrice is zero or the step's
\* lastPrice is negative, the step fails with an arithmetic-domain error and
\* emits no row.
C16_ZeroBaseOrNegativePriceFails ==
    [][(/\ PricesKnown
        /\ \/ pool_creation_data'.lastPrice.n = 0
           \/ last_price(pool_data').n < 0)
          => /\ ~RowEmitted
             /\ error' \in ArithmeticErrors]_vars

\* C16 amended: when the baseline's lastPrice is zero, or the step's
\* lastPrice and the baseline's have opposite signs, the step raises (with
\* ZeroDivisionError or ValueError when the record's four fields are
\* numeric), emits no row and leaves the file alone; when both prices are
\* negative the square root raises nothing; every emitted return is a
\* number.
C16_ZeroBaseOrNegativeRatioFails ==
    [][/\ (/\ PricesKnown
           /\ \/ pool_creation_data'.lastPrice.n = 0
              \/ last_price(pool_data').n * pool_creation_data'.lastPrice.n < 0)
             => /\ ~RowEmitted
                /\ csv_file' = csv_file
                /\ pc' = "crashed"
                /\ SampleIsNumeric(pool_data') => error' \in ArithmeticErrors
       /\ (/\ PricesKnown
           /\ last_price(pool_data').n < 0
           /\ pool_creation_data'.lastPrice.n < 0)
             => error' # Exc("ValueError")
       /\ RowEmitted
             => /\ IsNum(RowMsgs'[Len(RowMsgs')].row.totalLPReturnPercent)
                /\ IsNum(RowMsgs'[Len(RowMsgs')].row.spotReturnPercent)]_vars

\* C16 witness: after a row with a positive baseline price, a record with a
\* negative lastPrice made math.sqrt raise ValueError.
C16_Witness ==
    /\ error = Exc("ValueError")
    /\ Len(RowMsgs) = 1
    /\ pool_creation_data # None
    /\ pool_creation_data.lastPrice.n > 0
    /\ last_price(pool_data).n < 0

\* C17: a step calls the resolver at most once, with the cursor, and the
\* fetcher at most once, only after the resolver and with the block the
\* resolver returned for that cursor; no cursor is passed to the resolver
\* twice in a run.
C17_AtMostTwoCallsPerStep ==
    [][/\ \/ resolverCalls' = resolverCalls
          \/ /\ resolverCalls' = Append(resolverCalls, current_timestamp)
             /\ \A i \in 1..Len(resolverCalls) :
                   resolverCalls[i] # current_timestamp
       /\ \/ fetcherCalls' = fetcherCalls
          \/ /\ fetcherCalls' = Append(fetcherCalls, block_number')
             /\ resolverCalls' = Append(resolverCalls, current_timestamp)
             /\ Truthy(block_number')
             /\ block_number' \in get_block_from_timestamp(current_timestamp)
       /\ Len(fetcherCalls') <= Len(resolverCalls')]_vars

\* C17 witness: three steps called the resolver and two of them the fetcher.
C17_Witness ==
    /\ Len(resolverCalls) = 3
    /\ Len(fetcherCalls) = 2

\* C18: after a write of the sink failed in a step, the loop goes on: the
\* cursor advances by 604800 and the run is not aborted.
C18_WriteFailureDoesNotAbort ==
    [][error' = Exc("OSError")
          => /\ pc' = "stepping"
             /\ current_timestamp' = current_timestamp + 604800]_vars

\* C19: the cursors visited are start, start + 604800, ... in that order,
\* none beyond the end bound; a run that returns from main has visited all of
\* them up to floor((end - start) / 604800), none when the start is after the
\* bound; the rows are never more than the iterations.
C19_VisitsEveryWeekOnce ==
    /\ \A i \in 1..Len(resolverCalls) :
          /\ resolverCalls[i] = start_timestamp + (i - 1) * 604800
          /\ resolverCalls[i] <= today_timestamp
    /\ pc = "done" =>
          Len(resolverCalls) =
              IF start_timestamp > today_timestamp THEN 0
              ELSE (today_timestamp - start_timestamp) \div 604800 + 1
    /\ Len(RowMsgs) <= Len(resolverCalls)

\* C19 witness: a run that returned after three iterations, the last one at
\* a cursor equal to the end bound, with fewer rows than iterations.
C19_Witness ==
    /\ pc = "done"
    /\ today_timestamp = start_timestamp + 2 * 604800
    /\ resolverCalls[3] = today_timestamp
    /\ Len(RowMsgs) = 2

====
